---- MODULE Spec2Model ----
(***************************************************************************)
(* Taibai MCP server (src/server.py): the tool dispatcher, the precondition *)
(* checks, the translation of tool requests into dedao-dl argument vectors, *)
(* the process executor and the relocation of downloaded artifacts.         *)
(***************************************************************************)
EXTENDS Integers, Sequences, FiniteSets, TLC

\* Bounds of the model.
MaxCalls == 2        \* tool calls dispatched by the host in one run
MaxNames == 2        \* distinct entry names a directory can hold

Calls == 1..MaxCalls
Names == 1..MaxNames

None == "None"

\* Directories.
TAIBAI_DIR == "~/.taibai"
DEFAULT_VAULT_DIR == "~/ideaverse-zero-2/Atlas/Sources/Dedao/Courses"
OutputDir == "~/.taibai/output"
CustomDir == "/custom"
Elsewhere == "/elsewhere"
Dirs == {OutputDir, DEFAULT_VAULT_DIR, CustomDir}

\* A directory entry: its kind and the call whose external run produced it
\* (0: it was there before any call in flight).
NoEntry == [kind |-> "none", tag |-> 0]
EmptyDir == [n \in Names |-> NoEntry]
Absent == [exists |-> FALSE, ent |-> EmptyDir]

\* Tools of the server.
GatedTools == {"list_courses", "course_details", "download_course",
               "article_details", "download_article"}
DownloadTools == {"download_course", "download_article"}

NoReq == [tool |-> "none", qrcode |-> FALSE, cookie |-> None,
          include_details |-> FALSE, id |-> None, format |-> None,
          output_dir |-> None]

\* LoginArgs
LoginArgs == {[NoReq EXCEPT !.tool = "login", !.qrcode = q, !.cookie = k] :
                 q \in BOOLEAN, k \in {None, "", "x"}}
\* ListCoursesArgs
ListCoursesArgs == {[NoReq EXCEPT !.tool = "list_courses", !.include_details = d] :
                       d \in BOOLEAN}
\* CourseDetailsArgs
CourseDetailsArgs == {[NoReq EXCEPT !.tool = "course_details", !.id = "abc"]}
\* DownloadCourseArgs: format is Literal["pdf","markdown","mp3"] | None
DownloadCourseArgs == {[NoReq EXCEPT !.tool = "download_course", !.id = "abc",
                                     !.format = f, !.output_dir = o] :
                          f \in {"pdf", "markdown", "mp3", None},
                          o \in {None, CustomDir}}
\* ArticleDetailsArgs
ArticleDetailsArgs == {[NoReq EXCEPT !.tool = "article_details", !.id = "abc"]}
\* DownloadArticleArgs: format is Literal["pdf","markdown"] | None
DownloadArticleArgs == {[NoReq EXCEPT !.tool = "download_article", !.id = "abc",
                                      !.format = f, !.output_dir = o] :
                           f \in {"pdf", "markdown", None},
                           o \in {None, CustomDir}}
VersionArgs == {[NoReq EXCEPT !.tool = "version"]}

Requests == LoginArgs \cup ListCoursesArgs \cup CourseDetailsArgs
            \cup DownloadCourseArgs \cup ArticleDetailsArgs
            \cup DownloadArticleArgs \cup VersionArgs

VARIABLES
    binary,     \* "present", "missing" (not on PATH) or "broken" (--help exits non-zero)
    procCwd,    \* working directory the server process was started in
    authed,     \* the session state dedao-dl keeps in TAIBAI_DIR
    fs,         \* the directories: [exists, ent]
    pc,         \* position of each tool call
    req,        \* the request of each tool call
    spawned,    \* child processes each call launched: [args, cwd, interactive, exit]
    result,     \* what the call returned or raised
    snap,       \* <<fs>> as it was when the call's external command had run
    todo,       \* entries listed by source_dir.iterdir() and not yet moved
    relocated   \* the calls that have listed the output subdirectory so far

vars == <<binary, procCwd, authed, fs, pc, req, spawned, result, snap, todo,
          relocated>>

----------------------------------------------------------------------------
\* Python truthiness of an optional string.
Truthy(s) == s # None /\ s # ""

\* Command Translator.
course_format_map == [mp3 |-> "1", pdf |-> "2", markdown |-> "3"]
article_format_map == [pdf |-> "2", markdown |-> "3"]

LoginCmd(r) ==
    IF r.qrcode THEN <<"login", "-q">>
    ELSE IF Truthy(r.cookie) THEN <<"login", "--cookie", r.cookie>>
    ELSE <<"login">>

ListCoursesCmd(r) ==
    IF r.include_details THEN <<"course", "-d">> ELSE <<"course">>

CourseDetailsCmd(r) == <<"detail", r.id>>

CourseFormatFlag_swapped(f) ==
    IF Truthy(f) THEN <<"-t", article_format_map[IF f = "mp3" THEN "pdf" ELSE f]>>
    ELSE <<>>

CourseFormatFlag(f) ==
    IF Truthy(f) THEN <<"-t", course_format_map[f]>> ELSE <<>>

DownloadCourseCmd(r) ==
    <<"dl", r.id>> \o CourseFormatFlag(r.format) \o <<"-c">>

ArticleDetailsCmd(r) == <<"article", "detail", r.id>>

ArticleFormatFlag(f) ==
    IF Truthy(f) THEN <<"-t", article_format_map[f]>> ELSE <<>>

DownloadArticleCmd(r) ==
    <<"article", "dl", r.id>> \o ArticleFormatFlag(r.format)

CmdArgs(r) ==
    CASE r.tool = "login" -> LoginCmd(r)
      [] r.tool = "list_courses" -> ListCoursesCmd(r)
      [] r.tool = "course_details" -> CourseDetailsCmd(r)
      [] r.tool = "download_course" -> DownloadCourseCmd(r)
      [] r.tool = "article_details" -> ArticleDetailsCmd(r)
      [] r.tool = "download_article" -> DownloadArticleCmd(r)

Interactive_never(r) == FALSE

\* dedao_login: only the QR-code path is run with interactive=True.
Interactive(r) == r.tool = "login" /\ r.qrcode

\* target_dir of a download.
TargetDir(r) == IF Truthy(r.output_dir) THEN r.output_dir ELSE DEFAULT_VAULT_DIR

----------------------------------------------------------------------------
\* Working directories of the child processes.
PresenceProbeCwd == procCwd           \* subprocess.run without cwd: inherited
AuthProbeCwd == TAIBAI_DIR
WorkingDir_inherited(cwd) == IF cwd # None THEN cwd ELSE procCwd
WorkingDir(cwd) == IF cwd # None THEN cwd ELSE TAIBAI_DIR

Proc(args, cwd, inter, exit) ==
    [args |-> args, cwd |-> cwd, interactive |-> inter, exit |-> exit]

\* Exit status of `dedao-dl --help`.
HelpExit ==
    CASE binary = "missing" -> "ENOENT"
      [] binary = "broken" -> "1"
      [] OTHER -> "0"

\* Exit status of `dedao-dl who` run in cwd: the session is found only in
\* the directory that holds it.
WhoExit(cwd) ==
    CASE binary = "missing" -> "ENOENT"
      [] binary = "present" /\ authed /\ cwd = TAIBAI_DIR -> "0"
      [] OTHER -> "1"

\* check_dedao_dl: CalledProcessError and FileNotFoundError both give False.
check_dedao_dl(exit) == exit = "0"

check_dedao_auth_always(exit) == TRUE

\* check_dedao_auth: True unless CalledProcessError.
check_dedao_auth(exit) == exit = "0"

----------------------------------------------------------------------------
\* Filesystem helpers.
Present(f, d, n) == f[d].exists /\ f[d].ent[n].kind # "none"

Listing_all(f, d) == Names

Listing(f, d) == {n \in Names : Present(f, d, n)}

Mkdir(f, d) == [f EXCEPT ![d].exists = TRUE]

RemoveTarget_skipped(f, t, n) == f

\* shutil.rmtree / unlink of target_path when it exists.
RemoveTarget(f, t, n) ==
    IF Present(f, t, n)
    THEN IF f[t].ent[n].kind = "dir"
         THEN [f EXCEPT ![t].ent[n] = NoEntry]
         ELSE [f EXCEPT ![t].ent[n] = NoEntry]
    ELSE f

\* shutil.move(item, target_path) of an item that is present: a rename onto
\* target_path, unless target_path is an existing directory, and then the
\* item goes inside it and the directory stays.
ShutilMove(f, t, n) ==
    IF Present(f, t, n) /\ f[t].ent[n].kind = "dir"
    THEN [f EXCEPT ![OutputDir].ent[n] = NoEntry]
    ELSE [f EXCEPT ![t].ent[n] = f[OutputDir].ent[n], ![OutputDir].ent[n] = NoEntry]

\* One iteration of the loop of move_downloaded_files.
MoveOne(f, t, n) == ShutilMove(RemoveTarget(f, t, n), t, n)

SourceExists_unchecked(f) == TRUE

\* source_dir.exists()
SourceExists(f) == f[OutputDir].exists

TryRmdir_skipped(f) == f

\* source_dir.rmdir() with OSError swallowed.
TryRmdir(f) ==
    IF f[OutputDir].exists /\ Listing(f, OutputDir) = {}
    THEN [f EXCEPT ![OutputDir] = Absent]
    ELSE f

\* What an external download run leaves under <cwd>/output: a set of entry
\* names. dedao-dl writes a directory per course and a file per article;
\* here odd names are files and even names are directories.
Products == SUBSET Names

KindOf(n) == IF n % 2 = 0 THEN "dir" ELSE "file"

WriteOutput(f, c, prod) ==
    IF prod = {} THEN f
    ELSE [f EXCEPT ![OutputDir] =
            [exists |-> TRUE,
             ent |-> [n \in Names |->
                        IF n \in prod THEN [kind |-> KindOf(n), tag |-> c]
                        ELSE IF f[OutputDir].exists THEN f[OutputDir].ent[n]
                        ELSE NoEntry]]]

Confirmation(r) ==
    IF r.tool = "download_course" THEN "Course downloaded successfully"
    ELSE "Article downloaded successfully"

----------------------------------------------------------------------------
\* check_version_compatibility: versions are <<major, minor, patch>>, <<>> is None.
Versions == {<<>>, <<1, 9, 0>>, <<1, 10, 0>>}

VersionLess(a, b) ==
    \/ a[1] < b[1]
    \/ a[1] = b[1] /\ a[2] < b[2]
    \/ a[1] = b[1] /\ a[2] = b[2] /\ a[3] < b[3]

check_version_compatibility(installed, latest) ==
    IF installed = <<>> THEN "Unable to determine installed dedao-dl version"
    ELSE IF latest = <<>> THEN "Using dedao-dl"
    ELSE IF VersionLess(installed, latest) THEN "dedao-dl is installed (latest)"
    ELSE "Using dedao-dl (up to date)"

----------------------------------------------------------------------------
InitFs ==
    {f \in [Dirs -> [exists : BOOLEAN, ent : {EmptyDir}]] :
        f[DEFAULT_VAULT_DIR].exists}

Init ==
    /\ binary \in {"present", "missing", "broken"}
    /\ procCwd \in {TAIBAI_DIR, Elsewhere}
    /\ authed \in BOOLEAN
    /\ fs \in InitFs
    /\ pc = [c \in Calls |-> "idle"]
    /\ req = [c \in Calls |-> NoReq]
    /\ spawned = [c \in Calls |-> <<>>]
    /\ result = [c \in Calls |-> None]
    /\ snap = [c \in Calls |-> <<>>]
    /\ todo = [c \in Calls |-> {}]
    /\ relocated = {}

\* The host dispatches calls in order.
NextToDispatch(c) == \A d \in Calls : d < c => pc[d] # "idle"

\* Single-request-at-a-time: no other call is in flight.
Alone(c) == \A d \in Calls \ {c} : pc[d] \in {"idle", "finished"}

\* The host dispatches a tool call.
Call(c, r) ==
    /\ pc[c] = "idle"
    /\ NextToDispatch(c)
    /\ req' = [req EXCEPT ![c] = r]
    /\ pc' = [pc EXCEPT ![c] =
                CASE r.tool \in GatedTools -> "auth"
                  [] r.tool = "login" -> "presence"
                  [] OTHER -> "version"]
    /\ UNCHANGED <<binary, procCwd, authed, fs, spawned, result, snap, todo, relocated>>

\* dedao_version
dedao_version(c) ==
    /\ pc[c] = "version"
    /\ spawned' = [spawned EXCEPT ![c] =
                     Append(@, Proc(<<"--help">>, PresenceProbeCwd, FALSE, HelpExit))]
    /\ pc' = [pc EXCEPT ![c] = "returned"]
    /\ \E installed \in Versions, latest \in Versions :
          result' = [result EXCEPT ![c] =
                       IF ~check_dedao_dl(HelpExit)
                       THEN "dedao-dl is not installed. Install with"
                       ELSE check_version_compatibility(installed, latest)]
    /\ UNCHANGED <<binary, procCwd, authed, fs, req, snap, todo, relocated>>

\* The authentication gate of the five gated tools.
AuthGate(c) ==
    /\ pc[c] = "auth"
    /\ LET exit == WhoExit(AuthProbeCwd) IN
        /\ spawned' = [spawned EXCEPT ![c] =
                         Append(@, Proc(<<"who">>, AuthProbeCwd, FALSE, exit))]
        /\ IF exit = "ENOENT"
           THEN /\ pc' = [pc EXCEPT ![c] = "raised"]
                /\ result' = [result EXCEPT ![c] = "FileNotFoundError"]
           ELSE IF ~check_dedao_auth(exit)
           THEN /\ pc' = [pc EXCEPT ![c] = "raised"]
                /\ result' = [result EXCEPT ![c] = "Not logged in to Dedao"]
           ELSE /\ pc' = [pc EXCEPT ![c] = "presence"]
                /\ UNCHANGED result
    /\ UNCHANGED <<binary, procCwd, authed, fs, req, snap, todo, relocated>>

\* execute_dedao_dl: the presence test.
Presence(c) ==
    /\ pc[c] = "presence"
    /\ spawned' = [spawned EXCEPT ![c] =
                     Append(@, Proc(<<"--help">>, PresenceProbeCwd, FALSE, HelpExit))]
    /\ IF ~check_dedao_dl(HelpExit)
       THEN /\ pc' = [pc EXCEPT ![c] = "raised"]
            /\ result' = [result EXCEPT ![c] = "dedao-dl is not installed. go install"]
       ELSE /\ pc' = [pc EXCEPT ![c] = "exec"]
            /\ UNCHANGED result
    /\ UNCHANGED <<binary, procCwd, authed, fs, req, snap, todo, relocated>>

Raises_unchecked(inter, exit) == FALSE

\* Captured mode has check=True; interactive mode ignores the exit status.
Raises(inter, exit) == ~inter /\ exit # "0"

\* execute_dedao_dl: the run of the translated command, and what the tool
\* does with its outcome up to the relocation.
Execute(c) ==
    /\ pc[c] = "exec"
    /\ LET r == req[c]
           inter == Interactive(r)
       IN \E exit \in {"0", "1"}, prod \in Products :
            /\ r.tool \notin DownloadTools => prod = {}
            /\ spawned' = [spawned EXCEPT ![c] =
                             Append(@, Proc(CmdArgs(r), WorkingDir(None), inter, exit))]
            /\ authed' = IF r.tool = "login" /\ exit = "0" THEN TRUE ELSE authed
            /\ fs' = WriteOutput(fs, c, prod)
            /\ snap' = [snap EXCEPT ![c] = <<fs'>>]
            /\ IF Raises(inter, exit)
               THEN /\ pc' = [pc EXCEPT ![c] = "raised"]
                    /\ result' = [result EXCEPT ![c] = "CalledProcessError"]
               ELSE IF r.tool \in DownloadTools
               THEN /\ pc' = [pc EXCEPT ![c] = "reloc"]
                    /\ UNCHANGED result
               ELSE /\ pc' = [pc EXCEPT ![c] = "returned"]
                    /\ result' = [result EXCEPT ![c] =
                                    IF inter THEN "QR code login completed"
                                    ELSE IF r.tool = "login" THEN "Login successful"
                                    ELSE "stdout"]
    /\ UNCHANGED <<binary, procCwd, req, todo, relocated>>

\* move_downloaded_files up to the listing of the output directory.
RelocBegin(c) ==
    /\ pc[c] = "reloc"
    /\ IF ~SourceExists(fs)
       THEN /\ pc' = [pc EXCEPT ![c] = "returned"]
            /\ result' = [result EXCEPT ![c] = Confirmation(req[c])]
            /\ UNCHANGED <<fs, todo, relocated>>
       ELSE /\ fs' = Mkdir(fs, TargetDir(req[c]))
            /\ todo' = [todo EXCEPT ![c] = Listing(fs, OutputDir)]
            /\ relocated' = relocated \cup {c}
            /\ pc' = [pc EXCEPT ![c] = "moving"]
            /\ UNCHANGED result
    /\ UNCHANGED <<binary, procCwd, authed, req, spawned, snap>>

\* One iteration of the loop: the item may be gone by now.
MoveItem(c) ==
    /\ pc[c] = "moving"
    /\ \E n \in todo[c] :
         LET t == TargetDir(req[c]) IN
         IF Present(fs, OutputDir, n)
         THEN /\ fs' = MoveOne(fs, t, n)
              /\ todo' = [todo EXCEPT ![c] = @ \ {n}]
              /\ UNCHANGED <<pc, result>>
         ELSE /\ fs' = RemoveTarget(fs, t, n)
              /\ todo' = [todo EXCEPT ![c] = {}]
              /\ pc' = [pc EXCEPT ![c] = "raised"]
              /\ result' = [result EXCEPT ![c] = "FileNotFoundError (move)"]
    /\ UNCHANGED <<binary, procCwd, authed, req, spawned, snap, relocated>>

\* The end of move_downloaded_files and the tool's confirmation.
RelocEnd(c) ==
    /\ pc[c] = "moving"
    /\ todo[c] = {}
    /\ fs' = TryRmdir(fs)
    /\ pc' = [pc EXCEPT ![c] = "returned"]
    /\ result' = [result EXCEPT ![c] = Confirmation(req[c])]
    /\ UNCHANGED <<binary, procCwd, authed, req, spawned, snap, todo, relocated>>

\* Entries of a call that is over are old entries for the calls that follow.
Retag(f, c) ==
    [d \in Dirs |->
       [f[d] EXCEPT !.ent = [n \in Names |->
                               IF f[d].ent[n].tag = c
                               THEN [f[d].ent[n] EXCEPT !.tag = 0]
                               ELSE f[d].ent[n]]]]

\* The result is handed to the host and the call is over.
Finish(c) ==
    /\ pc[c] \in {"returned", "raised"}
    /\ pc' = [pc EXCEPT ![c] = "finished"]
    /\ req' = [req EXCEPT ![c] = NoReq]
    /\ spawned' = [spawned EXCEPT ![c] = <<>>]
    /\ result' = [result EXCEPT ![c] = None]
    /\ snap' = [snap EXCEPT ![c] = <<>>]
    /\ fs' = Retag(fs, c)
    /\ UNCHANGED <<binary, procCwd, authed, todo, relocated>>

Step(c) ==
    \/ dedao_version(c)
    \/ AuthGate(c)
    \/ Presence(c)
    \/ Execute(c)
    \/ RelocBegin(c)
    \/ MoveItem(c)
    \/ RelocEnd(c)
    \/ Finish(c)

\* One tool call at a time (section 5 of the design: single-request-at-a-time).
Next ==
    \E c \in Calls :
        \/ \E r \in Requests : Alone(c) /\ Call(c, r)
        \/ Step(c)

Spec == Init /\ [][Next]_vars

\* The host transport dispatches download calls concurrently: the steps of
\* the calls interleave.
ConcRequests == {r \in DownloadCourseArgs \cup DownloadArticleArgs :
                    r.format = "markdown"}

\* The server is installed, logged in and has relocated everything so far.
InitConc ==
    /\ Init
    /\ binary = "present"
    /\ authed
    /\ procCwd = Elsewhere
    /\ \A d \in Dirs : fs[d].exists <=> d = DEFAULT_VAULT_DIR

\* The two calls in flight together.
Racers == {1, 2}

NextConc ==
    \E c \in Racers :
        \/ \E r \in ConcRequests : Call(c, r)
        \/ AuthGate(c)
        \/ Presence(c)
        \/ Execute(c)
        \/ RelocBegin(c)
        \/ MoveItem(c)
        \/ RelocEnd(c)
        \/ Finish(c)

SpecConc == InitConc /\ [][NextConc]_vars

----------------------------------------------------------------------------
\* Properties.

Gated(c) == req[c].tool \in GatedTools
Download(c) == req[c].tool \in DownloadTools
Over(c) == pc[c] \in {"returned", "raised"}

\* The call has launched its translated command (after `who` and `--help`).
RanCommand(c) == Download(c) /\ Len(spawned[c]) = 3
CommandOf(c) == spawned[c][Len(spawned[c])]

Occurrences(tok, s) == Cardinality({i \in 1..Len(s) : s[i] = tok})

\* C1: a gated tool whose `dedao-dl who` probe exits non-zero raises the
\* 'not logged in' failure; the probe is the only child process the call
\* ever launches, its own command never runs and no relocation step runs.
AuthProbeFailed(c) ==
    /\ Len(spawned[c]) >= 1
    /\ spawned[c][1].args = <<"who">>
    /\ spawned[c][1].exit = "1"

C1_GateBlocksTool ==
    \A c \in Calls :
        Gated(c) /\ AuthProbeFailed(c) =>
            /\ pc[c] = "raised"
            /\ result[c] = "Not logged in to Dedao"
            /\ Len(spawned[c]) = 1
            /\ snap[c] = <<>>
            /\ todo[c] = {}

C1_Witness ==
    \E c \in Calls :
        /\ req[c].tool = "download_course"
        /\ AuthProbeFailed(c)
        /\ pc[c] = "raised"
        /\ binary = "present"

\* C2: with the binary missing every gated operation fails with the failure
\* that carries the install instruction, and with no other failure.
C2_MissingBinaryInstallHint ==
    \A c \in Calls :
        Gated(c) /\ binary = "missing" /\ Over(c) =>
            /\ pc[c] = "raised"
            /\ result[c] = "dedao-dl is not installed. go install"

\* C3 as stated: every invocation of the external binary, the presence probe
\* included, runs with the private state directory as working directory.
C3_EveryInvocationInPrivateDir ==
    \A c \in Calls : \A i \in 1..Len(spawned[c]) :
        spawned[c][i].cwd = TAIBAI_DIR

\* C3 as amended: the auth probe and every translated tool command run with
\* the private state directory as working directory; the presence probe
\* `--help` runs in the working directory the server process inherited.
C3_CommandsInPrivateDir ==
    \A c \in Calls : \A i \in 1..Len(spawned[c]) :
        IF spawned[c][i].args = <<"--help">>
        THEN spawned[c][i].cwd = procCwd
        ELSE spawned[c][i].cwd = TAIBAI_DIR

C3_Witness ==
    \E c \in Calls :
        /\ procCwd = Elsewhere
        /\ Len(spawned[c]) = 3
        /\ spawned[c][1].args = <<"who">>
        /\ spawned[c][2].args = <<"--help">>
        /\ spawned[c][3].args[1] = "dl"

\* C4: a download whose captured external run exits non-zero aborts with a
\* failure: nothing leaves the output subdirectory, the destination is
\* neither created nor modified, and no confirmation is returned.
C4_FailedRunNoRelocation ==
    \A c \in Calls :
        RanCommand(c) /\ CommandOf(c).exit # "0" =>
            /\ pc[c] = "raised"
            /\ result[c] = "CalledProcessError"
            /\ fs = snap[c][1]
            /\ todo[c] = {}

C4_Witness ==
    \E c \in Calls :
        /\ RanCommand(c)
        /\ CommandOf(c).exit = "1"
        /\ pc[c] = "raised"
        /\ Listing(fs, OutputDir) # {}
        /\ TargetDir(req[c]) = CustomDir
        /\ ~fs[CustomDir].exists

\* C5: a download whose external run succeeded and left no output
\* subdirectory does not raise, leaves every directory as it was (the
\* destination is not created, none of its entries changes) and returns its
\* confirmation.
OutputAbsentAfterRun(c) ==
    /\ RanCommand(c)
    /\ CommandOf(c).exit = "0"
    /\ ~snap[c][1][OutputDir].exists

C5_AbsentOutputNoOp ==
    \A c \in Calls :
        OutputAbsentAfterRun(c) =>
            /\ pc[c] \in {"reloc", "returned"}
            /\ fs = snap[c][1]
            /\ pc[c] = "returned" => result[c] = Confirmation(req[c])

C5_Witness ==
    \E c \in Calls :
        /\ OutputAbsentAfterRun(c)
        /\ pc[c] = "returned"
        /\ TargetDir(req[c]) = CustomDir
        /\ ~fs[CustomDir].exists
        /\ Listing(fs, DEFAULT_VAULT_DIR) # {}

C7_EndToEnd ==
    \A c \in Calls :
        Download(c) /\ pc[c] = "returned" =>
            LET t == IF req[c].output_dir = None THEN DEFAULT_VAULT_DIR
                     ELSE req[c].output_dir
            IN /\ fs[t].exists \/ Listing(snap[c][1], OutputDir) = {}
               /\ \A n \in Listing(snap[c][1], OutputDir) : Present(fs, t, n)
               /\ ~fs[OutputDir].exists
               /\ CommandOf(c).exit = "0"

C7_Witness ==
    \E c \in Calls :
        /\ req[c].tool = "download_course"
        /\ req[c].format = "pdf"
        /\ req[c].output_dir = None
        /\ pc[c] = "returned"
        /\ Cardinality(Listing(snap[c][1], OutputDir)) = 1
        /\ \A n \in Listing(snap[c][1], OutputDir) : n \notin Listing(snap[c][1], DEFAULT_VAULT_DIR)

\* The format codes the specification names.
ClaimedCode(f) ==
    CASE f = "mp3" -> "1"
      [] f = "pdf" -> "2"
      [] f = "markdown" -> "3"

BaseVerb(r) ==
    IF r.tool = "download_course" THEN <<"dl", r.id>> ELSE <<"article", "dl", r.id>>

\* C8 as stated: the vector of every download is the base verb, the
\* identifier, then `-t` with the code of the format, and every accepted
\* download request yields a vector carrying exactly one `-t` code.
C8_ExactlyOneFormatCode ==
    \A c \in Calls :
        RanCommand(c) =>
            LET a == CommandOf(c).args
                k == Len(BaseVerb(req[c]))
            IN /\ Occurrences("-t", a) = 1
               /\ Len(a) >= k + 2
               /\ SubSeq(a, 1, k) = BaseVerb(req[c])
               /\ a[k + 1] = "-t"
               /\ a[k + 2] \in {"1", "2", "3"}

\* C8 as amended: a download request with a format yields the base verb, the
\* identifier, then exactly one `-t` with "1" for mp3, "2" for pdf and "3"
\* for markdown; download_article has no code for mp3; a request whose format
\* is None (the schema accepts it) yields a vector with no `-t` at all.
C8_FormatMapping ==
    /\ "mp3" \notin DOMAIN article_format_map
    /\ \A r \in DownloadArticleArgs : r.format # "mp3"
    /\ \A c \in Calls :
        RanCommand(c) =>
            LET a == CommandOf(c).args
                k == Len(BaseVerb(req[c]))
            IN IF req[c].format = None
               THEN /\ Occurrences("-t", a) = 0
                    /\ SubSeq(a, 1, k) = BaseVerb(req[c])
               ELSE /\ Occurrences("-t", a) = 1
                    /\ Len(a) >= k + 2
                    /\ SubSeq(a, 1, k + 2) =
                         BaseVerb(req[c]) \o <<"-t", ClaimedCode(req[c].format)>>

C8_Witness ==
    \E c \in Calls :
        /\ req[c].tool = "download_course"
        /\ req[c].format = "mp3"
        /\ RanCommand(c)
        /\ CommandOf(c).args = <<"dl", "abc", "-t", "1", "-c">>

\* C9: login with qrcode runs `login -q` interactively and ignores the
\* cookie; without qrcode it runs captured, `login --cookie x` for cookie
\* "x" and `login` for no cookie; exactly one login process is launched, and
\* login never runs the authentication probe.
LoginProcs(c) == {i \in 1..Len(spawned[c]) : spawned[c][i].args[1] = "login"}

C9_LoginModes ==
    \A c \in Calls :
        req[c].tool = "login" =>
            /\ \A i \in 1..Len(spawned[c]) : spawned[c][i].args # <<"who">>
            /\ Cardinality(LoginProcs(c)) <= 1
            /\ Over(c) /\ binary = "present" => Cardinality(LoginProcs(c)) = 1
            /\ \A i \in LoginProcs(c) :
                 LET p == spawned[c][i] IN
                 CASE req[c].qrcode ->
                        /\ p.args = <<"login", "-q">>
                        /\ p.interactive
                        /\ pc[c] = "returned"
                   [] ~req[c].qrcode /\ req[c].cookie = "x" ->
                        /\ p.args = <<"login", "--cookie", "x">>
                        /\ ~p.interactive
                   [] ~req[c].qrcode /\ req[c].cookie = None ->
                        /\ p.args = <<"login">>
                        /\ ~p.interactive
                   [] OTHER -> ~p.interactive

C9_Witness ==
    \E c \in Calls :
        /\ req[c].tool = "login"
        /\ req[c].qrcode
        /\ req[c].cookie = "x"
        /\ pc[c] = "returned"
        /\ Cardinality(LoginProcs(c)) = 1
        /\ \E i \in LoginProcs(c) : spawned[c][i].exit = "1"

\* C10: with interleaved calls, the relocation of a call raises on an entry
\* it listed only when another call has listed the output subdirectory for
\* its own relocation (nothing keeps the two apart); and the
\* witness state is reached, where two calls with different target
\* directories are in flight, one has failed that way and an artifact it
\* produced lies in the other call's target directory.
MoveFailed(c) == pc[c] = "raised" /\ result[c] = "FileNotFoundError (move)"

C10_RelocationFailsOnlyByRace ==
    \A c \in Calls :
        MoveFailed(c) => relocated \ {c} # {}

C10_Witness ==
    \E c \in Calls : \E d \in Calls \ {c} :
        /\ Download(c) /\ Download(d)
        /\ TargetDir(req[c]) # TargetDir(req[d])
        /\ MoveFailed(c)
        /\ \E n \in Names :
             /\ Present(fs, TargetDir(req[d]), n)
             /\ fs[TargetDir(req[d])].ent[n].tag = c

====
